---- MODULE Spec2Model ----
(***************************************************************************)
(* A model of scripts/scrape_sudhelpla.py (class SUDHelpLAScraper).        *)
(*                                                                         *)
(* Text is modelled as a sequence of one-character strings, so that        *)
(* upper(), lower(), replace(), split(), "x in s" and the regular          *)
(* expressions act on characters as they do in the code.                   *)
(***************************************************************************)
EXTENDS Integers, Sequences, FiniteSets, TLC

VARIABLES
    \* convert_to_24h
    time_str, time_norm, time_out, time_raised, time_pc,
    \* parse_hours
    hours_text, hours, hours_i, hours_pc,
    \* parse_hours_table
    table, headers, times, tbl_hours, tbl_i, tbl_logged, tbl_raised, tbl_pc,
    \* extract_service_types
    svc_category, tooltip_descriptions, service_types, unique_services, svc_pc,
    \* parse_agency_data
    agency_div, data, ag_logged, ag_pc,
    \* scrape_agencies
    agencies_container, agency_rows, agencies, sc_i, sc_pc,
    \* run / main
    soup, services_df, agencies_df, files, steps, exit_code, run_pc

varsTime   == <<time_str, time_norm, time_out, time_raised, time_pc>>
varsHours  == <<hours_text, hours, hours_i, hours_pc>>
varsTable  == <<table, headers, times, tbl_hours, tbl_i, tbl_logged, tbl_raised, tbl_pc>>
varsSvc    == <<svc_category, tooltip_descriptions, service_types, unique_services, svc_pc>>
varsAgency == <<agency_div, data, ag_logged, ag_pc>>
varsScrape == <<agencies_container, agency_rows, agencies, sc_i, sc_pc>>
varsRun    == <<soup, services_df, agencies_df, files, steps, exit_code, run_pc>>
vars       == <<varsTime, varsHours, varsTable, varsSvc, varsAgency, varsScrape, varsRun>>

(***************************************************************************)
(* Characters and strings                                                  *)
(***************************************************************************)
LowerLetters ==
    <<"a","b","c","d","e","f","g","h","i","j","k","l","m",
      "n","o","p","q","r","s","t","u","v","w","x","y","z">>
UpperLetters ==
    <<"A","B","C","D","E","F","G","H","I","J","K","L","M",
      "N","O","P","Q","R","S","T","U","V","W","X","Y","Z">>
Digits == <<"0","1","2","3","4","5","6","7","8","9">>

IsDigit(c) == \E i \in 1..10 : Digits[i] = c
DigitVal(c) == (CHOOSE i \in 1..10 : Digits[i] = c) - 1
IsSpace(c) == c \in {" ", "\t", "\n"}

UpperChar(c) ==
    IF \E i \in 1..26 : LowerLetters[i] = c
    THEN UpperLetters[CHOOSE i \in 1..26 : LowerLetters[i] = c]
    ELSE c
LowerChar(c) ==
    IF \E i \in 1..26 : UpperLetters[i] = c
    THEN LowerLetters[CHOOSE i \in 1..26 : UpperLetters[i] = c]
    ELSE c

\* str.upper() and str.lower()
Upper(s) == [i \in 1..Len(s) |-> UpperChar(s[i])]
Lower(s) == [i \in 1..Len(s) |-> LowerChar(s[i])]

\* re.sub(r'\s+', '', s)
NotSpace(c) == ~IsSpace(c)
RemoveWS(s) == SelectSeq(s, NotSpace)

\* pat in s
StartsAt(s, i, pat) ==
    /\ i + Len(pat) - 1 <= Len(s)
    /\ \A k \in 1..Len(pat) : s[i + k - 1] = pat[k]
Contains(s, pat) == \E i \in 1..(Len(s) + 1) : StartsAt(s, i, pat)

\* s.replace(pat, ''): every non-overlapping occurrence, left to right
RECURSIVE Remove(_, _)
Remove(s, pat) ==
    IF Len(s) < Len(pat) THEN s
    ELSE IF StartsAt(s, 1, pat)
         THEN Remove(SubSeq(s, Len(pat) + 1, Len(s)), pat)
         ELSE <<Head(s)>> \o Remove(Tail(s), pat)

\* s.split(':')
RECURSIVE SplitColon(_)
SplitColon(s) ==
    IF \A i \in 1..Len(s) : s[i] # ":" THEN <<s>>
    ELSE LET k == CHOOSE i \in 1..Len(s) :
                      s[i] = ":" /\ \A j \in 1..(i - 1) : s[j] # ":"
         IN  <<SubSeq(s, 1, k - 1)>> \o SplitColon(SubSeq(s, k + 1, Len(s)))

\* int(s) for a text of ASCII digits; of the other texts the model's tokens
\* hold (letters, ':', '.', none with a sign or an underscore) each raises
\* ValueError
IsInt(s) == Len(s) > 0 /\ \A i \in 1..Len(s) : IsDigit(s[i])
RECURSIVE IntVal(_)
IntVal(s) ==
    IF Len(s) = 0 THEN 0
    ELSE 10 * IntVal(SubSeq(s, 1, Len(s) - 1)) + DigitVal(s[Len(s)])

\* f"{n}" for n >= 0
RECURSIVE DecStr(_)
DecStr(n) ==
    IF n < 10 THEN <<Digits[n + 1]>>
    ELSE DecStr(n \div 10) \o <<Digits[(n % 10) + 1]>>
\* f"{n:02d}" for n >= 0
Fmt02d(n) == IF n < 10 THEN <<"0">> \o DecStr(n) ELSE DecStr(n)

AM == <<"A","M">>
PM == <<"P","M">>
COLON00 == <<":","0","0">>

(***************************************************************************)
(* convert_to_24h                                                          *)
(***************************************************************************)
\* line 219: time_str = re.sub(r'\s+', '', time_str.upper())
NormalizeTime(s) == RemoveWS(Upper(s))

\* Branch without the hour == 12 test of line 227
BranchMutNoMidnight(t, marker) ==
    LET Pad(time_part) == IF Contains(time_part, <<":">>) THEN time_part
                          ELSE time_part \o COLON00
        Hour(h) == IF marker = AM THEN h
                   ELSE (IF h # 12 THEN h + 12 ELSE h)
        Format(parts) ==
            IF Len(parts) # 2 \/ ~IsInt(parts[1])
            THEN [ok |-> FALSE, val |-> t]
            ELSE [ok |-> TRUE,
                  val |-> Fmt02d(Hour(IntVal(parts[1]))) \o <<":">> \o parts[2]]
    IN  Format(SplitColon(Pad(Remove(t, marker))))
\* The body of one branch (lines 222-229 with marker AM, 231-238 with PM);
\* ok = FALSE when the tuple unpacking or int() raises.
\* time_part is the text without the marker (lines 222, 231), Pad lines
\* 223-224 and 232-233, Format lines 225-229 and 234-238
Branch(t, marker) ==
    LET Pad(time_part) == IF Contains(time_part, <<":">>) THEN time_part
                          ELSE time_part \o COLON00
        Hour(h) == IF marker = AM
                   THEN (IF h = 12 THEN 0 ELSE h)
                   ELSE (IF h # 12 THEN h + 12 ELSE h)
        Format(parts) ==
            IF Len(parts) # 2 \/ ~IsInt(parts[1])
            THEN [ok |-> FALSE, val |-> t]
            ELSE [ok |-> TRUE,
                  val |-> Fmt02d(Hour(IntVal(parts[1]))) \o <<":">> \o parts[2]]
    IN  Format(SplitColon(Pad(Remove(t, marker))))

\* ExceptReturn returning the text as it was passed in
ExceptMutOriginal(orig, t) == orig
\* What the except clause returns (line 243): the rebound time_str.
ExceptReturn(orig, t) == t

\* The function as a whole, for its callers; it never raises (bare except).
convert_to_24h(s) ==
    LET Try(t, r) == IF r.ok THEN r.val ELSE ExceptReturn(s, t)
        Convert(t) == IF Contains(t, AM) THEN Try(t, Branch(t, AM))
                      ELSE IF Contains(t, PM) THEN Try(t, Branch(t, PM))
                      ELSE t
    IN  Convert(NormalizeTime(s))

\* except: (line 242) is a bare except: it catches every exception kind.
BareExcept(kind) == TRUE

(***************************************************************************)
(* Inputs of convert_to_24h: time tokens                                   *)
(***************************************************************************)
\* <hour 1..12>[:<minutes>][ ]<AM|PM in any case>
ShapeHours == {DecStr(h) : h \in 1..12} \cup {Fmt02d(h) : h \in 1..12}
ShapeMinutes == {<<>>, <<":","0","0">>, <<":","3","0">>}
ShapeGaps == {<<>>, <<" ">>}
AMSuffixes == {<<"A","M">>, <<"a","m">>, <<"A","m">>}
PMSuffixes == {<<"P","M">>, <<"p","m">>, <<"p","M">>}
\* tokens outside that shape
OtherHours == {<<>>, <<"0">>, <<"1","3">>, <<"2","1">>}
OtherMinutes == {<<":","0","0",":","1","5">>}
OtherSuffixes == {<<>>, <<"A">>, <<"p">>, <<"h">>}
Words == {<<"n","o","o","n">>, <<"C","l","o","s","e","d">>, <<" ">>,
          <<"2","4"," ","h","r","s">>, <<"a","m">>, <<"9",":","x","P","M">>}

TimeTokens ==
    {h \o m \o g \o x :
        h \in ShapeHours \cup OtherHours,
        m \in ShapeMinutes \cup OtherMinutes,
        g \in ShapeGaps,
        x \in AMSuffixes \cup PMSuffixes \cup OtherSuffixes}
    \cup Words

(***************************************************************************)
(* convert_to_24h, step by step                                            *)
(***************************************************************************)
IdleTime ==
    /\ time_str = <<>>
    /\ time_norm = <<>>
    /\ time_out = <<>>
    /\ time_raised = FALSE
    /\ time_pc = "idle"

InitTimeVars ==
    /\ time_str \in TimeTokens
    /\ time_norm = <<>>
    /\ time_out = <<>>
    /\ time_raised = FALSE
    /\ time_pc = "start"

\* line 219
TimeNormalize ==
    /\ time_pc = "start"
    /\ time_norm' = NormalizeTime(time_str)
    /\ time_pc' = "normalized"
    /\ UNCHANGED <<time_str, time_out, time_raised>>

\* lines 221-229, and 242-243 when the branch raises ValueError
TimeAM ==
    /\ time_pc = "normalized"
    /\ Contains(time_norm, AM)
    /\ LET Finish(r) ==
               /\ time_raised' = (~r.ok /\ ~BareExcept("ValueError"))
               /\ time_out' = IF r.ok THEN r.val
                              ELSE ExceptReturn(time_str, time_norm)
       IN  Finish(Branch(time_norm, AM))
    /\ time_pc' = "done"
    /\ UNCHANGED <<time_str, time_norm>>

\* lines 230-238, and 242-243 when the branch raises ValueError
TimePM ==
    /\ time_pc = "normalized"
    /\ ~Contains(time_norm, AM)
    /\ Contains(time_norm, PM)
    /\ LET Finish(r) ==
               /\ time_raised' = (~r.ok /\ ~BareExcept("ValueError"))
               /\ time_out' = IF r.ok THEN r.val
                              ELSE ExceptReturn(time_str, time_norm)
       IN  Finish(Branch(time_norm, PM))
    /\ time_pc' = "done"
    /\ UNCHANGED <<time_str, time_norm>>

\* lines 239-241
TimeElse ==
    /\ time_pc = "normalized"
    /\ ~Contains(time_norm, AM)
    /\ ~Contains(time_norm, PM)
    /\ time_out' = time_norm
    /\ time_raised' = FALSE
    /\ time_pc' = "done"
    /\ UNCHANGED <<time_str, time_norm>>



(***************************************************************************)
(* parse_hours                                                             *)
(***************************************************************************)
\* lines 132-133 (and 180-181): the keys of a schedule, in the code's order
WeekDays == <<"sunday", "monday", "tuesday", "wednesday", "thursday",
              "friday", "saturday">>
DaySet == {WeekDays[i] : i \in 1..Len(WeekDays)}

EmptyTimes == [open |-> <<>>, close |-> <<>>]
EmptyHours == [day \in DaySet |-> EmptyTimes]

\* HoursDayMapping with its entries in Sunday-first order
HoursDayMappingMutSundayFirst ==
    << <<<<"s","u","n">>, "sunday">>, <<<<"m","o","n">>, "monday">>,
       <<<<"t","u","e">>, "tuesday">>, <<<<"w","e","d">>, "wednesday">>,
       <<<<"t","h","u">>, "thursday">>, <<<<"f","r","i">>, "friday">>,
       <<<<"s","a","t">>, "saturday">>,
       <<<<"s","u","n","d","a","y">>, "sunday">>,
       <<<<"m","o","n","d","a","y">>, "monday">>,
       <<<<"t","u","e","s","d","a","y">>, "tuesday">>,
       <<<<"w","e","d","n","e","s","d","a","y">>, "wednesday">>,
       <<<<"t","h","u","r","s","d","a","y">>, "thursday">>,
       <<<<"f","r","i","d","a","y">>, "friday">>,
       <<<<"s","a","t","u","r","d","a","y">>, "saturday">> >>
\* lines 152-157: day_mapping of parse_hours, in insertion order
HoursDayMapping ==
    << <<<<"m","o","n">>, "monday">>, <<<<"t","u","e">>, "tuesday">>,
       <<<<"w","e","d">>, "wednesday">>, <<<<"t","h","u">>, "thursday">>,
       <<<<"f","r","i">>, "friday">>, <<<<"s","a","t">>, "saturday">>,
       <<<<"s","u","n">>, "sunday">>,
       <<<<"m","o","n","d","a","y">>, "monday">>,
       <<<<"t","u","e","s","d","a","y">>, "tuesday">>,
       <<<<"w","e","d","n","e","s","d","a","y">>, "wednesday">>,
       <<<<"t","h","u","r","s","d","a","y">>, "thursday">>,
       <<<<"f","r","i","d","a","y">>, "friday">>,
       <<<<"s","a","t","u","r","d","a","y">>, "saturday">>,
       <<<<"s","u","n","d","a","y">>, "sunday">> >>

\* dict.get(key): hit = FALSE when the key is absent
DictGet(mapping, key) ==
    IF \E i \in 1..Len(mapping) : mapping[i][1] = key
    THEN [hit |-> TRUE,
          val |-> mapping[CHOOSE i \in 1..Len(mapping) : mapping[i][1] = key][2]]
    ELSE [hit |-> FALSE, val |-> "none"]
\* d[key] = val: the key is added when the dict lacks it
DictSet(d, key, val) ==
    [k \in DOMAIN d \cup {key} |-> IF k = key THEN val ELSE d[k]]
\* list(dict.values())
DictValues(mapping) == [i \in 1..Len(mapping) |-> mapping[i][2]]
\* list.index(x): the first position, counted from 0
ListIndex(list, x) ==
    (CHOOSE i \in 1..Len(list) :
        list[i] = x /\ \A j \in 1..(i - 1) : list[j] # x) - 1
InList(list, x) == \E i \in 1..Len(list) : list[i] = x

\* lines 160-174: one iteration of "for match in day_ranges".  A day token that
\* day_mapping lacks maps to its own lower-cased text (the .get default), which
\* is not in day_list, so the match is not applied.
ApplyMatch(h, match) ==
    LET start == DictGet(HoursDayMapping, Lower(match.start_day))
        end == IF match.end_day # <<>>
               THEN DictGet(HoursDayMapping, Lower(match.end_day))
               ELSE start
        open_24h == convert_to_24h(match.open_time)
        close_24h == convert_to_24h(match.close_time)
        day_list == DictValues(HoursDayMapping)
    IN  IF start.hit /\ end.hit /\ InList(day_list, start.val) /\ InList(day_list, end.val)
        THEN LET start_idx == ListIndex(day_list, start.val)
                 end_idx == ListIndex(day_list, end.val)
                 covered == {day_list[i + 1] : i \in start_idx..end_idx}
             IN  [day \in DOMAIN h \cup covered |->
                    IF day \in covered
                    THEN [open |-> open_24h, close |-> close_24h]
                    ELSE h[day]]
        ELSE h

\* lines 145-146
AllDayHours(h) ==
    [day \in DOMAIN h |->
        [open |-> <<"0","0",":","0","0">>, close |-> <<"2","3",":","5","9">>]]

(***************************************************************************)
(* Inputs of parse_hours.  hours_text is given by what the code reads of   *)
(* it: whether it is empty (line 135), whether it holds "24/7" or          *)
(* "24 hours" (line 144), and the tuples re.findall returns for it         *)
(* (line 150): (start day, end day or '', open time, close time).          *)
(***************************************************************************)
MaxMatches == 2

StartDayTokens == {<<"M","o","n">>, <<"S","a","t">>, <<"f","r","i">>,
                   <<"S","u","n","d","a","y">>}
EndDayTokens == {<<>>, <<"F","r","i">>, <<"S","u","n">>, <<"M","O","N">>,
                 <<"s","a","t","u","r","d","a","y">>}
\* the times of a match: one pair with every pair of days, another with some
TimePairs ==
    << <<<<"9",":","0","0"," ","A","M">>, <<"5",":","0","0"," ","P","M">>>>,
       <<<<"1","2",":","3","0","p","m">>, <<"1","2",":","0","0"," ","a">>>> >>
DayRanges ==
    {[start_day |-> s, end_day |-> e,
      open_time |-> TimePairs[1][1], close_time |-> TimePairs[1][2]] :
        s \in StartDayTokens, e \in EndDayTokens}
    \cup {[start_day |-> d[1], end_day |-> d[2],
           open_time |-> TimePairs[2][1], close_time |-> TimePairs[2][2]] :
        d \in {<<<<"M","o","n">>, <<"F","r","i">>>>,
               <<<<"S","a","t">>, <<"S","u","n">>>>,
               <<<<"S","u","n","d","a","y">>, <<>>>>}}

SeqsUpTo(S, n) == UNION {[1..k -> S] : k \in 0..n}

HoursTexts ==
    {[kind |-> "empty", day_ranges |-> <<>>]}
    \cup {[kind |-> "always", day_ranges |-> m] : m \in SeqsUpTo(DayRanges, 1)}
    \cup {[kind |-> "plain", day_ranges |-> m] : m \in SeqsUpTo(DayRanges, MaxMatches)}

IdleHours ==
    /\ hours_text = [kind |-> "empty", day_ranges |-> <<>>]
    /\ hours = EmptyHours
    /\ hours_i = 0
    /\ hours_pc = "idle"

InitHoursVars ==
    /\ hours_text \in HoursTexts
    /\ hours = EmptyHours
    /\ hours_i = 0
    /\ hours_pc = "start"

\* lines 135-136
HoursEmptyText ==
    /\ hours_pc = "start"
    /\ hours_text.kind = "empty"
    /\ hours_pc' = "done"
    /\ UNCHANGED <<hours_text, hours, hours_i>>

\* lines 144-147
HoursAlwaysOpen ==
    /\ hours_pc = "start"
    /\ hours_text.kind = "always"
    /\ hours' = AllDayHours(hours)
    /\ hours_pc' = "done"
    /\ UNCHANGED <<hours_text, hours_i>>

\* line 150
HoursFindAll ==
    /\ hours_pc = "start"
    /\ hours_text.kind = "plain"
    /\ hours_pc' = "loop"
    /\ UNCHANGED <<hours_text, hours, hours_i>>

\* lines 159-174, one match
HoursMatch ==
    /\ hours_pc = "loop"
    /\ hours_i < Len(hours_text.day_ranges)
    /\ hours' = ApplyMatch(hours, hours_text.day_ranges[hours_i + 1])
    /\ hours_i' = hours_i + 1
    /\ UNCHANGED <<hours_text, hours_pc>>

\* line 176
HoursReturn ==
    /\ hours_pc = "loop"
    /\ hours_i = Len(hours_text.day_ranges)
    /\ hours_pc' = "done"
    /\ UNCHANGED <<hours_text, hours, hours_i>>



(***************************************************************************)
(* parse_hours_table                                                       *)
(***************************************************************************)
\* lines 193-196: day_mapping of parse_hours_table
TableDayMapping ==
    << <<<<"s","u","n">>, "sunday">>, <<<<"m","o","n">>, "monday">>,
       <<<<"t","u","e">>, "tuesday">>, <<<<"w","e","d">>, "wednesday">>,
       <<<<"t","h","u">>, "thursday">>, <<<<"f","r","i">>, "friday">>,
       <<<<"s","a","t">>, "saturday">> >>

CLOSED == <<"c","l","o","s","e","d">>
ClosedTimes == [open |-> <<"C","l","o","s","e","d">>,
                close |-> <<"C","l","o","s","e","d">>]

At(s, i) == IF i \in 1..Len(s) THEN s[i] ELSE ""

\* \d{1,2}:\d{2}[AP]M? matched at position i: the position after the match,
\* 0 when there is none.  The quantifiers are greedy; no shorter choice can
\* make the rest of the pattern match, so the greedy choice is the match.
TimeTokenEnd(s, i) ==
    LET Minutes(c) ==
            IF IsDigit(At(s, c + 1)) /\ IsDigit(At(s, c + 2))
               /\ At(s, c + 3) \in {"A", "P"}
            THEN (IF At(s, c + 4) = "M" THEN c + 5 ELSE c + 4)
            ELSE 0
        Hour(nd) == IF nd = 0 THEN 0 ELSE Minutes(i + nd)
    IN  Hour(IF IsDigit(At(s, i)) /\ IsDigit(At(s, i + 1)) /\ At(s, i + 2) = ":"
             THEN 2
             ELSE IF IsDigit(At(s, i)) /\ At(s, i + 1) = ":" THEN 1 ELSE 0)

\* \s* from position i: the first position that holds no whitespace
RECURSIVE SkipSpaces(_, _)
SkipSpaces(s, i) == IF IsSpace(At(s, i)) THEN SkipSpaces(s, i + 1) ELSE i

\* line 205 anchored at position i
TimeRangeAt(s, i) ==
    LET Match(e1, dash, b2, e2) ==
            IF e1 # 0 /\ At(s, dash) = "-" /\ e2 # 0
            THEN [found |-> TRUE, open |-> SubSeq(s, i, e1 - 1),
                  close |-> SubSeq(s, b2, e2 - 1)]
            ELSE [found |-> FALSE, open |-> <<>>, close |-> <<>>]
        Second(e1, dash, b2) == Match(e1, dash, b2, TimeTokenEnd(s, b2))
        Dash(e1, dash) == Second(e1, dash, SkipSpaces(s, dash + 1))
        First(e1) == Dash(e1, SkipSpaces(s, e1))
    IN  First(TimeTokenEnd(s, i))

\* line 205: re.search, the leftmost match
TimeRangeSearch(s) ==
    LET Leftmost(hits) ==
            IF hits = {} THEN [found |-> FALSE, open |-> <<>>, close |-> <<>>]
            ELSE TimeRangeAt(s, CHOOSE i \in hits : \A j \in hits : i <= j)
    IN  Leftmost({i \in 1..Len(s) : TimeRangeAt(s, i).found})

\* TablePair without the .lower() of line 201
TablePairMutClosedCase(h, header, time_cell) ==
    LET Range(day, time_match) ==
            IF time_match.found
            THEN [ok |-> TRUE,
                  hours |-> DictSet(h, day,
                      [open |-> convert_to_24h(time_match.open),
                       close |-> convert_to_24h(time_match.close)])]
            ELSE [ok |-> TRUE, hours |-> h]
        Day(day_key) ==
            IF ~day_key.hit THEN [ok |-> TRUE, hours |-> h]
            ELSE IF ~time_cell.is_str THEN [ok |-> FALSE, hours |-> h]
            ELSE IF Contains(time_cell.text, CLOSED)
            THEN [ok |-> TRUE, hours |-> DictSet(h, day_key.val, ClosedTimes)]
            ELSE Range(day_key.val, TimeRangeSearch(time_cell.text))
    IN  IF ~header.is_str THEN [ok |-> FALSE, hours |-> h]
        ELSE Day(DictGet(TableDayMapping, Lower(header.text)))
\* lines 199-209: the body of the loop for one (header, time_cell).  A cell
\* text that is no string has no .lower(): ok = FALSE is the AttributeError.
TablePair(h, header, time_cell) ==
    LET Range(day, time_match) ==
            IF time_match.found
            THEN [ok |-> TRUE,
                  hours |-> DictSet(h, day,
                      [open |-> convert_to_24h(time_match.open),
                       close |-> convert_to_24h(time_match.close)])]
            ELSE [ok |-> TRUE, hours |-> h]
        Day(day_key) ==
            IF ~day_key.hit THEN [ok |-> TRUE, hours |-> h]
            ELSE IF ~time_cell.is_str THEN [ok |-> FALSE, hours |-> h]
            ELSE IF Contains(Lower(time_cell.text), CLOSED)
            THEN [ok |-> TRUE, hours |-> DictSet(h, day_key.val, ClosedTimes)]
            ELSE Range(day_key.val, TimeRangeSearch(time_cell.text))
    IN  IF ~header.is_str THEN [ok |-> FALSE, hours |-> h]
        ELSE Day(DictGet(TableDayMapping, Lower(header.text)))

\* zip(headers, times): the number of pairs
Min(a, b) == IF a < b THEN a ELSE b
ZipLen(hs, ts) == Min(Len(hs), Len(ts))

\* OnTableError discarding the schedule built so far
OnTableErrorMutReset(h) == EmptyHours
\* what the handler of line 210 leaves of the schedule built so far
OnTableError(h) == h

\* except Exception (line 210): catches every exception raised in the body
ExceptException(kind) == TRUE

\* lines 198-209 from pair i + 1 on; on an exception the loop is left with the
\* schedule as the earlier pairs made it
RECURSIVE TableLoop(_, _, _, _)
TableLoop(h, hs, ts, i) ==
    IF i >= ZipLen(hs, ts) THEN [ok |-> TRUE, hours |-> h]
    ELSE LET Continue(r) ==
                 IF r.ok THEN TableLoop(r.hours, hs, ts, i + 1)
                 ELSE [ok |-> FALSE, hours |-> OnTableError(r.hours)]
         IN  Continue(TablePair(h, hs[i + 1], ts[i + 1]))

\* the function as a whole, for parse_agency_data: the schedule it returns
parse_hours_table(t) ==
    IF t.find_all = "raises" THEN OnTableError(EmptyHours)
    ELSE IF t.rows < 2 THEN EmptyHours
    ELSE IF t.cells = "raises" THEN OnTableError(EmptyHours)
    ELSE TableLoop(EmptyHours, t.headers, t.times, 0).hours

(***************************************************************************)
(* Inputs of parse_hours_table.  A table is given by what the code reads   *)
(* of it: whether find_all('tr') raises, the number of rows, whether       *)
(* reading the cells of the two rows raises, and the get_text of the cells *)
(* of row 0 and row 1 (is_str = FALSE: a value that is no string).         *)
(***************************************************************************)
MaxCells == 2

Str(text) == [is_str |-> TRUE, text |-> text]
NotAStr == [is_str |-> FALSE, text |-> <<>>]

HeaderCells ==
    {Str(<<"S","u","n">>), Str(<<"M","o","n">>), Str(<<"M","O","N">>),
     Str(<<"S","u","n","d","a","y">>), NotAStr}
TimeCells ==
    {Str(<<"C","l","o","s","e","d">>),
     Str(<<"C","L","O","S","E","D"," ","1",":","0","0","P","M","-","2",":","0","0","P","M">>),
     Str(<<"8",":","0","0","A","M"," ","-"," ","5",":","0","0","P","M">>),
     Str(<<"8",":","0","0"," ","A","M"," ","-"," ","5",":","0","0"," ","P","M">>),
     Str(<<"a","t"," ","1","2",":","0","0","P","M","-","1","2",":","3","0","A">>),
     NotAStr}

Tables ==
    {[find_all |-> "raises", rows |-> 0, cells |-> "ok", headers |-> <<>>, times |-> <<>>]}
    \cup {[find_all |-> "ok", rows |-> n, cells |-> "ok", headers |-> <<>>, times |-> <<>>] :
            n \in 0..1}
    \cup {[find_all |-> "ok", rows |-> 2, cells |-> "raises", headers |-> <<>>, times |-> <<>>]}
    \cup {[find_all |-> "ok", rows |-> 2, cells |-> "ok", headers |-> hs, times |-> ts] :
            hs \in SeqsUpTo(HeaderCells, MaxCells),
            ts \in SeqsUpTo(TimeCells, MaxCells)}

NoTable == [find_all |-> "ok", rows |-> 0, cells |-> "ok", headers |-> <<>>, times |-> <<>>]

IdleTable ==
    /\ table = NoTable
    /\ headers = <<>>
    /\ times = <<>>
    /\ tbl_hours = EmptyHours
    /\ tbl_i = 0
    /\ tbl_logged = FALSE
    /\ tbl_raised = FALSE
    /\ tbl_pc = "idle"

InitTableVars ==
    /\ table \in Tables
    /\ headers = <<>>
    /\ times = <<>>
    /\ tbl_hours = EmptyHours
    /\ tbl_i = 0
    /\ tbl_logged = FALSE
    /\ tbl_raised = FALSE
    /\ tbl_pc = "start"

\* lines 210-213 after an exception of the given kind in the try body
TableExcept(kind) ==
    /\ tbl_logged' = ExceptException(kind)
    /\ tbl_raised' = ~ExceptException(kind)
    /\ tbl_pc' = "done"

\* line 184, find_all raising
TableFindRowsRaises ==
    /\ tbl_pc = "start"
    /\ table.find_all = "raises"
    /\ TableExcept("AttributeError")
    /\ tbl_hours' = OnTableError(tbl_hours)
    /\ UNCHANGED <<table, headers, times, tbl_i>>

\* lines 184-185 with fewer than two rows, then line 213
TableTooFewRows ==
    /\ tbl_pc = "start"
    /\ table.find_all = "ok"
    /\ table.rows < 2
    /\ tbl_pc' = "done"
    /\ UNCHANGED <<table, headers, times, tbl_hours, tbl_i, tbl_logged, tbl_raised>>

\* lines 184-191
TableReadCells ==
    /\ tbl_pc = "start"
    /\ table.find_all = "ok"
    /\ table.rows >= 2
    /\ table.cells = "ok"
    /\ headers' = table.headers
    /\ times' = table.times
    /\ tbl_pc' = "loop"
    /\ UNCHANGED <<table, tbl_hours, tbl_i, tbl_logged, tbl_raised>>

\* lines 190-191 raising
TableReadCellsRaises ==
    /\ tbl_pc = "start"
    /\ table.find_all = "ok"
    /\ table.rows >= 2
    /\ table.cells = "raises"
    /\ TableExcept("AttributeError")
    /\ tbl_hours' = OnTableError(tbl_hours)
    /\ UNCHANGED <<table, headers, times, tbl_i>>

\* lines 198-209, one pair
TablePairOk ==
    /\ tbl_pc = "loop"
    /\ tbl_i < ZipLen(headers, times)
    /\ LET Assign(r) == r.ok /\ tbl_hours' = r.hours
       IN  Assign(TablePair(tbl_hours, headers[tbl_i + 1], times[tbl_i + 1]))
    /\ tbl_i' = tbl_i + 1
    /\ UNCHANGED <<table, headers, times, tbl_logged, tbl_raised, tbl_pc>>

\* lines 198-209, a pair that raises; tbl_i stays at the pairs completed
TablePairRaises ==
    /\ tbl_pc = "loop"
    /\ tbl_i < ZipLen(headers, times)
    /\ LET Assign(r) == ~r.ok /\ tbl_hours' = OnTableError(r.hours)
       IN  Assign(TablePair(tbl_hours, headers[tbl_i + 1], times[tbl_i + 1]))
    /\ TableExcept("AttributeError")
    /\ UNCHANGED <<table, headers, times, tbl_i>>

\* line 213 after the loop
TableReturn ==
    /\ tbl_pc = "loop"
    /\ tbl_i = ZipLen(headers, times)
    /\ tbl_pc' = "done"
    /\ UNCHANGED <<table, headers, times, tbl_hours, tbl_i, tbl_logged, tbl_raised>>


(***************************************************************************)
(* extract_service_types                                                   *)
(***************************************************************************)
\* s.rstrip(':')
RECURSIVE RStripColon(_)
RStripColon(s) ==
    IF Len(s) > 0 /\ s[Len(s)] = ":" THEN RStripColon(SubSeq(s, 1, Len(s) - 1))
    ELSE s

\* s.strip()
RECURSIVE Strip(_)
Strip(s) ==
    IF Len(s) > 0 /\ IsSpace(s[1]) THEN Strip(Tail(s))
    ELSE IF Len(s) > 0 /\ IsSpace(s[Len(s)]) THEN Strip(SubSeq(s, 1, Len(s) - 1))
    ELSE s

UNKNOWN == <<"U","n","k","n","o","w","n">>

\* lines 60-65: the category of an accordion item; header_text is the text of
\* the button of its header, none = TRUE when there is no header or no button
CategoryOf(header) == IF header.none THEN UNKNOWN ELSE RStripColon(header.text)

\* line 104 with the name k characters long: \s+\(([^)]+)\)$ matches the rest
CodeStartsAfter(text, k) ==
    LET open == SkipSpaces(text, k + 1)
    IN  /\ k >= 1
        /\ IsSpace(At(text, k + 1))
        /\ At(text, open) = "("
        /\ open + 1 <= Len(text) - 1
        /\ At(text, Len(text)) = ")"
        /\ \A j \in (open + 1)..(Len(text) - 1) : text[j] # ")"

\* lines 104-110: service name and code of a label text; (.+?) is lazy, so the
\* shortest name for which the rest matches is taken
SplitService(text) ==
    IF \E k \in 1..Len(text) : CodeStartsAfter(text, k)
    THEN LET k == CHOOSE n \in 1..Len(text) :
                     /\ CodeStartsAfter(text, n)
                     /\ \A m \in 1..(n - 1) : ~CodeStartsAfter(text, m)
             open == SkipSpaces(text, k + 1)
         IN  [service_name |-> Strip(SubSeq(text, 1, k)),
              service_code |-> Strip(SubSeq(text, open + 1, Len(text) - 1))]
    ELSE [service_name |-> text, service_code |-> <<>>]

\* lines 78-80: the first non-empty of the three attributes
TooltipText(tooltip) ==
    IF tooltip.title # <<>> THEN tooltip.title
    ELSE IF tooltip.original_title # <<>> THEN tooltip.original_title
    ELSE tooltip.aria_label

\* lines 76-88: the dict built from the tooltips of a section, as a sequence of
\* <<label text, description>>; a later tooltip of the same label replaces
\* the earlier one
RECURSIVE TooltipDict(_)
TooltipDict(tooltips) ==
    IF tooltips = <<>> THEN <<>>
    ELSE LET last == tooltips[Len(tooltips)]
             before == TooltipDict(SubSeq(tooltips, 1, Len(tooltips) - 1))
             keep(e) == e[1] # last.label
         IN  IF last.has_label
             THEN SelectSeq(before, keep) \o <<<<last.label, TooltipText(last)>>>>
             ELSE before

\* line 101: tooltip_descriptions.get(full_service_text, '')
DescriptionOf(dict, text) ==
    IF DictGet(dict, text).hit THEN DictGet(dict, text).val ELSE <<>>

\* lines 93-117: the entry a checkbox appends, if any.  label.found = FALSE:
\* the section holds no label for the id of the checkbox
ServiceEntry(category, dict, label) ==
    IF ~label.found \/ label.text = <<>> THEN <<>>
    ELSE <<[category |-> category,
            service_code |-> SplitService(label.text).service_code,
            service_name |-> SplitService(label.text).service_name,
            description |-> DescriptionOf(dict, label.text)]>>

\* ServiceKey with the service code in the key
ServiceKeyMutWithCode(service) ==
    <<service.category, service.service_name, service.service_code>>
\* line 123
ServiceKey(service) == <<service.category, service.service_name>>

\* lines 120-126, from element i on, with the keys seen so far
RECURSIVE UniqueFrom(_, _, _)
UniqueFrom(list, i, seen) ==
    IF i > Len(list) THEN <<>>
    ELSE IF ServiceKey(list[i]) \notin seen
         THEN <<list[i]>> \o UniqueFrom(list, i + 1, seen \cup {ServiceKey(list[i])})
         ELSE UniqueFrom(list, i + 1, seen)

UniqueServices(list) == UniqueFrom(list, 1, {})

(***************************************************************************)
(* Inputs of extract_service_types: the document is read as the code       *)
(* walks it (containers, accordion items, tooltips and checkboxes).        *)
(***************************************************************************)
MaxServices == 3

DETOX_D == <<"D","e","t","o","x"," ","(","D",")">>
DETOX == <<"D","e","t","o","x">>
TIP_A == <<"t","i","p","A">>
TIP_B == <<"t","i","p","B">>

HeaderTexts ==
    {[none |-> TRUE, text |-> <<>>],
     [none |-> FALSE, text |-> <<"D","e","t","o","x",":">>],
     [none |-> FALSE, text |-> UNKNOWN]}

Tooltip(label, title, aria) ==
    [has_label |-> TRUE, label |-> label, title |-> title,
     original_title |-> <<>>, aria_label |-> aria]
TooltipLists ==
    {<<>>,
     <<Tooltip(DETOX_D, TIP_A, <<>>), Tooltip(DETOX_D, <<>>, TIP_B)>>,
     <<Tooltip(DETOX, TIP_B, TIP_A)>>}

Labels ==
    {[found |-> FALSE, text |-> <<>>],
     [found |-> TRUE, text |-> <<>>],
     [found |-> TRUE, text |-> DETOX_D],
     [found |-> TRUE, text |-> DETOX],
     [found |-> TRUE, text |-> <<"D","e","t","o","x"," "," ","(","X"," ",")">>],
     [found |-> TRUE, text |-> <<"R","e","h","a","b"," ","(","O","P",")"," ","(","R",")">>]}

IdleSvc ==
    /\ svc_category = <<>>
    /\ tooltip_descriptions = <<>>
    /\ service_types = <<>>
    /\ unique_services = <<>>
    /\ svc_pc = "idle"

InitSvcVars ==
    /\ svc_category = <<>>
    /\ tooltip_descriptions = <<>>
    /\ service_types = <<>>
    /\ unique_services = <<>>
    /\ svc_pc = "start"

\* lines 44-47 and 50-53: a container is missing, the empty table is returned
SvcNoContainer ==
    /\ svc_pc = "start"
    /\ svc_pc' = "done"
    /\ unique_services' = <<>>
    /\ UNCHANGED <<svc_category, tooltip_descriptions, service_types>>

\* lines 44-56: both containers found
SvcFindItems ==
    /\ svc_pc = "start"
    /\ svc_pc' = "items"
    /\ UNCHANGED <<svc_category, tooltip_descriptions, service_types, unique_services>>

\* lines 58-88: the next accordion item that has a collapse block (an item
\* without one is skipped at line 70 and changes nothing)
SvcItem ==
    /\ svc_pc \in {"items", "checkboxes"}
    /\ \E header \in HeaderTexts, tooltips \in TooltipLists :
        /\ svc_category' = CategoryOf(header)
        /\ tooltip_descriptions' = TooltipDict(tooltips)
    /\ svc_pc' = "checkboxes"
    /\ UNCHANGED <<service_types, unique_services>>

\* lines 92-117: the next checkbox of the item
SvcCheckbox ==
    /\ svc_pc = "checkboxes"
    /\ Len(service_types) < MaxServices
    /\ \E label \in Labels :
        service_types' = service_types
            \o ServiceEntry(svc_category, tooltip_descriptions, label)
    /\ UNCHANGED <<svc_category, tooltip_descriptions, unique_services, svc_pc>>

\* lines 119-128
SvcReturn ==
    /\ svc_pc \in {"items", "checkboxes"}
    /\ unique_services' = UniqueServices(service_types)
    /\ svc_pc' = "done"
    /\ UNCHANGED <<svc_category, tooltip_descriptions, service_types>>


(***************************************************************************)
(* parse_agency_data: the field rules                                      *)
(***************************************************************************)
IsUpper(c) == \E i \in 1..26 : UpperLetters[i] = c

\* \d* from position i: the first position that holds no digit
RECURSIVE SkipDigits(_, _)
SkipDigits(s, i) == IF IsDigit(At(s, i)) THEN SkipDigits(s, i + 1) ELSE i

MILES == <<"m","i","l","e","s">>

\* line 293: re.sub(r'^\d+\.\d+\s+miles\s*', '', address_text)
StripMiles(s) ==
    LET dot == SkipDigits(s, 1)
        frac == SkipDigits(s, dot + 1)
        word == SkipSpaces(s, frac)
        rest == SkipSpaces(s, word + Len(MILES))
    IN  IF dot > 1 /\ At(s, dot) = "." /\ frac > dot + 1 /\ word > frac
           /\ StartsAt(s, word, MILES)
        THEN SubSeq(s, rest, Len(s))
        ELSE s

\* line 301 anchored at i: \(?\d{3}\)?[\s\-]?\d{3}[\s\-]?\d{4}; the position
\* after the match, 0 when there is none
IsSep(c) == IsSpace(c) \/ c = "-"
PhoneEnd(s, i) ==
    LET a == IF At(s, i) = "(" THEN i + 1 ELSE i
        b == IF At(s, a + 3) = ")" THEN a + 4 ELSE a + 3
        c == IF IsSep(At(s, b)) THEN b + 1 ELSE b
        d == IF IsSep(At(s, c + 3)) THEN c + 4 ELSE c + 3
    IN  IF /\ \A k \in a..(a + 2) : IsDigit(At(s, k))
           /\ \A k \in c..(c + 2) : IsDigit(At(s, k))
           /\ \A k \in d..(d + 3) : IsDigit(At(s, k))
        THEN d + 4
        ELSE 0

\* lines 301-303: the leftmost match, '' (the field's default) when none
PhoneSearch(s) ==
    IF \E i \in 1..Len(s) : PhoneEnd(s, i) # 0
    THEN LET i == CHOOSE n \in 1..Len(s) :
                     PhoneEnd(s, n) # 0 /\ \A m \in 1..(n - 1) : PhoneEnd(s, m) = 0
         IN  [found |-> TRUE, group |-> SubSeq(s, i, PhoneEnd(s, i) - 1)]
    ELSE [found |-> FALSE, group |-> <<>>]

APPTS == <<"O","p","e","n"," ","I","n","t","a","k","e"," ","A","p","p","t","s",":">>

\* line 340: r'Open Intake Appts:.*?(\d+)' found at i with the number at j
ApptAt(s, i, j) ==
    /\ StartsAt(s, i, APPTS)
    /\ j >= i + Len(APPTS)
    /\ IsDigit(At(s, j))
    /\ \A k \in (i + Len(APPTS))..(j - 1) : s[k] # "\n"
\* lines 340-342: the leftmost match, its lazy gap, its greedy number
ApptSearch(s) ==
    IF \E i, j \in 1..Len(s) : ApptAt(s, i, j)
    THEN LET i == CHOOSE n \in 1..Len(s) :
                     /\ \E j \in 1..Len(s) : ApptAt(s, n, j)
                     /\ \A m \in 1..(n - 1) : \A j \in 1..Len(s) : ~ApptAt(s, m, j)
             j == CHOOSE n \in 1..Len(s) :
                     ApptAt(s, i, n) /\ \A m \in 1..(n - 1) : ~ApptAt(s, i, m)
         IN  [found |-> TRUE, group |-> SubSeq(s, j, SkipDigits(s, j) - 1)]
    ELSE [found |-> FALSE, group |-> <<>>]

\* line 357: re.split(r'(?=[A-Z])', s): cut before every capital letter
RECURSIVE SplitInner(_)
SplitInner(s) ==
    LET cuts == {i \in 2..Len(s) : IsUpper(s[i])}
    IN  IF cuts = {} THEN <<s>>
        ELSE LET k == CHOOSE i \in cuts : \A j \in cuts : i <= j
             IN  <<SubSeq(s, 1, k - 1)>> \o SplitInner(SubSeq(s, k, Len(s)))
SplitCapitals(s) ==
    IF Len(s) > 0 /\ IsUpper(s[1]) THEN <<<<>>>> \o SplitInner(s) ELSE SplitInner(s)

\* '; '.join(list)
RECURSIVE JoinSemi(_)
JoinSemi(list) ==
    IF list = <<>> THEN <<>>
    ELSE IF Len(list) = 1 THEN list[1]
    ELSE list[1] \o <<";", " ">> \o JoinSemi(Tail(list))

\* lines 357-359
NonEmptyText(p) == Strip(p) # <<>>
Populations(service_text) ==
    LET kept == SelectSeq(SplitCapitals(service_text), NonEmptyText)
    IN  JoinSemi([i \in 1..Len(kept) |-> Strip(kept[i])])

(***************************************************************************)
(* parse_agency_data: the record                                           *)
(***************************************************************************)
\* f'{prefix}_{day}_{side}' (lines 266-269, 325-326, 349-350); a key of the
\* record is the tuple of its parts, a plain key a tuple of one part
HourKey(prefix, day, side) == <<prefix, day, side>>

\* lines 250-262
PlainKeys ==
    {<<"agency_name">>, <<"agency_name_secondary">>, <<"agency_address">>,
     <<"agency_phone">>, <<"agency_website">>, <<"agency_wheelchair_access">>,
     <<"available_beds">>, <<"intake_open_appointments">>,
     <<"populations_served">>, <<"languages_spoken">>, <<"last_updated">>}

\* InitialData without the 'last_updated' entry of line 261
InitialDataMutNoLastUpdated ==
    [k \in (PlainKeys \ {<<"last_updated">>}) \cup
           {HourKey(p, WeekDays[i], x) :
                p \in {"agency_hours", "intake_hours"},
                i \in 1..Len(WeekDays), x \in {"open", "close"}} |-> <<>>]
\* lines 247-269: the record before extraction
InitialData ==
    [k \in PlainKeys \cup
           {HourKey(p, WeekDays[i], x) :
                p \in {"agency_hours", "intake_hours"},
                i \in 1..Len(WeekDays), x \in {"open", "close"}} |-> <<>>]

\* several assignments data[key] = val, given as a set of <<key, val>>
SetAll(d, sets) ==
    IF sets = {} THEN d ELSE
    [k \in DOMAIN d \cup {kv[1] : kv \in sets} |->
        IF \E kv \in sets : kv[1] = k
        THEN (CHOOSE kv \in sets : kv[1] = k)[2]
        ELSE d[k]]

\* lines 324-326 and 348-350
HourSets(prefix, sched) ==
    {<<HourKey(prefix, day, "open"), sched[day].open>> : day \in DOMAIN sched}
    \cup {<<HourKey(prefix, day, "close"), sched[day].close>> : day \in DOMAIN sched}

YES == <<"y","e","s">>

\* The blocks of an agency sub-tree, in the order the code looks them up.
Blocks == <<"listing", "name", "secondary", "address", "phone", "web", "wheel",
            "hours", "beds", "intake", "service", "languages", "last_update">>
BlockSet == {Blocks[i] : i \in 1..Len(Blocks)}
\* the blocks looked up inside the listing block (lines 274-326)
InListing == {"name", "secondary", "address", "phone", "web", "wheel", "hours"}

\* The table a hours or intake block holds
GoodTable ==
    [find_all |-> "ok", rows |-> 2, cells |-> "ok",
     headers |-> <<Str(<<"S","u","n">>), Str(<<"M","o","n">>)>>,
     times |-> <<Str(<<"C","l","o","s","e","d">>),
                 Str(<<"8",":","0","0","A","M"," ","-"," ","5",":","0","0","P","M">>)>>]
BrokenTable ==
    [find_all |-> "ok", rows |-> 2, cells |-> "ok",
     headers |-> <<Str(<<"M","o","n">>), NotAStr>>,
     times |-> <<Str(<<"C","l","o","s","e","d">>), Str(<<>>)>>]
TableOf(block) == IF block.st = "broken_table" THEN BrokenTable ELSE GoodTable

\* WheelchairAccess without the .lower() of line 316
WheelchairAccessMutCaseSensitive(wheelchair_text) ==
    IF Contains(wheelchair_text, YES) THEN <<"Y","e","s">> ELSE <<"N","o">>
\* line 316
WheelchairAccess(wheelchair_text) ==
    IF Contains(Lower(wheelchair_text), YES) THEN <<"Y","e","s">> ELSE <<"N","o">>

\* What one field group does to the record for its block b = [st, text]:
\* sets, the assignments made, and ok = FALSE when the group raises (sets are
\* then the assignments made before the exception).  st = "absent": find
\* returns None; "raises": the lookup or get_text raises.
Group(g, b) ==
    IF b.st = "raises" THEN [ok |-> FALSE, sets |-> {}]
    ELSE IF b.st = "absent" THEN [ok |-> TRUE, sets |-> {}]
    ELSE CASE g = "listing" -> [ok |-> TRUE, sets |-> {}]
         \* lines 276-278
         [] g = "name" -> [ok |-> TRUE, sets |-> {<<<<"agency_name">>, b.text>>}]
         \* lines 281-285
         [] g = "secondary" ->
              [ok |-> TRUE,
               sets |-> IF b.st = "no_span" THEN {}
                        ELSE {<<<<"agency_name_secondary">>, b.text>>}]
         \* lines 288-294
         [] g = "address" ->
              [ok |-> TRUE, sets |-> {<<<<"agency_address">>, StripMiles(b.text)>>}]
         \* lines 297-303
         [] g = "phone" ->
              [ok |-> TRUE,
               sets |-> IF PhoneSearch(b.text).found
                        THEN {<<<<"agency_phone">>, PhoneSearch(b.text).group>>}
                        ELSE {}]
         \* lines 306-310; text is the href of the link, '' without one
         [] g = "web" ->
              [ok |-> TRUE,
               sets |-> IF b.st = "no_link" THEN {}
                        ELSE {<<<<"agency_website">>, b.text>>}]
         \* lines 313-316
         [] g = "wheel" ->
              [ok |-> TRUE,
               sets |-> {<<<<"agency_wheelchair_access">>,
                           WheelchairAccess(b.text)>>}]
         \* lines 319-326
         [] g = "hours" ->
              [ok |-> TRUE,
               sets |-> IF b.st = "no_table" THEN {}
                        ELSE HourSets("agency_hours", parse_hours_table(TableOf(b)))]
         \* lines 329-332
         [] g = "beds" -> [ok |-> TRUE, sets |-> {<<<<"available_beds">>, b.text>>}]
         \* lines 335-350; "table_raises": find('table') raises at line 345
         [] g = "intake" ->
              LET appt == IF ApptSearch(b.text).found
                          THEN {<<<<"intake_open_appointments">>, ApptSearch(b.text).group>>}
                          ELSE {}
              IN  IF b.st = "table_raises" THEN [ok |-> FALSE, sets |-> appt]
                  ELSE IF b.st = "no_table" THEN [ok |-> TRUE, sets |-> appt]
                  ELSE [ok |-> TRUE,
                        sets |-> appt \cup
                            HourSets("intake_hours", parse_hours_table(TableOf(b)))]
         \* lines 353-359
         [] g = "service" ->
              [ok |-> TRUE, sets |-> {<<<<"populations_served">>, Populations(b.text)>>}]
         \* lines 362-365
         [] g = "languages" -> [ok |-> TRUE, sets |-> {<<<<"languages_spoken">>, b.text>>}]
         \* lines 368-370
         [] g = "last_update" -> [ok |-> TRUE, sets |-> {<<<<"last_updated">>, b.text>>}]

\* The group looked up after group g (lines 274, 329): without a listing block
\* the groups inside it are skipped.
NextGroup(g, b) ==
    IF g = "listing" /\ b.st = "absent" THEN "beds"
    ELSE IF g = "last_update" THEN "return"
    ELSE Blocks[(CHOOSE i \in 1..Len(Blocks) : Blocks[i] = g) + 1]

\* OnAgencyError discarding the fields extracted so far
OnAgencyErrorMutReset(d) == InitialData
\* lines 372-373: what the handler leaves of the record
OnAgencyError(d) == d

(***************************************************************************)
(* Inputs of parse_agency_data.  An agency sub-tree is given by its        *)
(* blocks: for each, what its lookup finds (st) and the text it holds.     *)
(* The sub-trees are those that differ from the one with every block       *)
(* present, or from the one with every block absent, in at most            *)
(* MaxDeviations blocks.                                                   *)
(***************************************************************************)
MaxDeviations == 2

B(st, text) == [st |-> st, text |-> text]
Absent == B("absent", <<>>)
Raises == B("raises", <<>>)

APPT_TEXT == APPTS \o <<" ","1","2"," ","n","o","w">>

Present(g) ==
    CASE g = "listing" -> B("present", <<>>)
      [] g = "name" -> B("present", <<"A","c","m","e">>)
      [] g = "secondary" -> B("present", <<"d","b","a"," ","X">>)
      [] g = "address" -> B("present", <<"1",".","5"," ","m","i","l","e","s","9"," ","E","l","m">>)
      [] g = "phone" -> B("present", <<"T","e","l"," ","(","2","1","3",")"," ","5","5","5","-","0","1","0","0">>)
      [] g = "web" -> B("present", <<"h","t","t","p",":","/","/","a",".","o","r","g">>)
      [] g = "wheel" -> B("present", <<"A","c","c","e","s","s",":"," ","Y","E","S">>)
      [] g = "hours" -> B("table", <<>>)
      [] g = "beds" -> B("present", <<"3"," ","b","e","d","s">>)
      [] g = "intake" -> B("table", APPT_TEXT)
      [] g = "service" -> B("present", <<"A","d","u","l","t","s","Y","o","u","t","h"," ","1","8","+">>)
      [] g = "languages" -> B("present", <<"E","n","g","l","i","s","h">>)
      [] g = "last_update" -> B("present", <<"1","/","2","/","2","5">>)

\* the other forms a block can take
Variants(g) ==
    CASE g = "secondary" -> {B("no_span", <<>>)}
      [] g = "address" -> {B("present", <<"9"," ","E","l","m">>)}
      [] g = "phone" -> {B("present", <<"n","/","a">>)}
      [] g = "web" -> {B("no_link", <<>>), B("present", <<>>)}
      [] g = "wheel" -> {B("present", <<"N","o">>), B("present", <<>>)}
      [] g = "hours" -> {B("no_table", <<>>), B("broken_table", <<>>)}
      [] g = "intake" -> {B("no_table", <<"f","u","l","l">>), B("table_raises", APPT_TEXT),
                          B("broken_table", <<>>)}
      [] OTHER -> {}

Options(g) == {Absent, Raises, Present(g)} \cup Variants(g)

FullTree == [g \in BlockSet |-> Present(g)]
EmptyTree == [g \in BlockSet |-> Absent]

\* the sub-trees that differ from one of S in at most k blocks
RECURSIVE Deviate(_, _)
Deviate(S, k) ==
    IF k = 0 THEN S
    ELSE LET T == Deviate(S, k - 1)
         IN  T \cup {[t EXCEPT ![g] = o] : t \in T, <<g, o>> \in
                        UNION {{<<h, x>> : x \in Options(h)} : h \in BlockSet}}

AgencyTrees == Deviate({FullTree, EmptyTree}, MaxDeviations)

IdleAgency ==
    /\ agency_div = EmptyTree
    /\ data = InitialData
    /\ ag_logged = FALSE
    /\ ag_pc = "idle"

InitAgencyVars ==
    /\ agency_div \in AgencyTrees
    /\ data = InitialData
    /\ ag_logged = FALSE
    /\ ag_pc = "listing"

\* One field group inside the try block (lines 271-370); when it raises,
\* lines 372-375 log the error and return the record.
AgencyGroup(g) ==
    /\ ag_pc = g
    /\ LET Assign(r) ==
               IF r.ok
               THEN /\ data' = SetAll(data, r.sets)
                    /\ ag_pc' = NextGroup(g, agency_div[g])
                    /\ UNCHANGED ag_logged
               ELSE /\ data' = OnAgencyError(SetAll(data, r.sets))
                    /\ ag_logged' = TRUE
                    /\ ag_pc' = "done"
       IN  Assign(Group(g, agency_div[g]))
    /\ UNCHANGED agency_div

AgListing == AgencyGroup("listing")
AgName == AgencyGroup("name")
AgSecondary == AgencyGroup("secondary")
AgAddress == AgencyGroup("address")
AgPhone == AgencyGroup("phone")
AgWeb == AgencyGroup("web")
AgWheel == AgencyGroup("wheel")
AgHours == AgencyGroup("hours")
AgBeds == AgencyGroup("beds")
AgIntake == AgencyGroup("intake")
AgService == AgencyGroup("service")
AgLanguages == AgencyGroup("languages")
AgLastUpdate == AgencyGroup("last_update")

\* line 375 after the try block
AgReturn ==
    /\ ag_pc = "return"
    /\ ag_pc' = "done"
    /\ UNCHANGED <<agency_div, data, ag_logged>>

(***************************************************************************)
(* scrape_agencies                                                         *)
(***************************************************************************)
\* parse_agency_data as a whole, for scrape_agencies: the groups from group g
\* on, in the order of the code, up to the first one that raises; the except
\* clause of line 372 catches it and line 375 returns the record
RECURSIVE AgencyFrom(_, _, _)
AgencyFrom(d, tree, g) ==
    IF g = "return" THEN [data |-> d, logged |-> FALSE]
    ELSE LET Assign(r) ==
                 IF r.ok
                 THEN AgencyFrom(SetAll(d, r.sets), tree, NextGroup(g, tree[g]))
                 ELSE [data |-> OnAgencyError(SetAll(d, r.sets)), logged |-> TRUE]
         IN  Assign(Group(g, tree[g]))
parse_agency_data(tree) == AgencyFrom(InitialData, tree, "listing")

\* lines 393-394 skipping the record of a node whose extraction logged an error
AppendAgencyMutSkipFailed(list, r) ==
    IF r.logged THEN list ELSE Append(list, r.data)
\* lines 393-394: agencies.append(agency_data)
AppendAgency(list, r) == Append(list, r.data)

(***************************************************************************)
(* Inputs of scrape_agencies: whether the page holds the agencies          *)
(* container, and the agency nodes find_all returns from it, in document   *)
(* order.                                                                  *)
(***************************************************************************)
MaxAgencies == 2

\* a node whose phone lookup raises, one whose intake table lookup raises
\* after the appointments were read, and a node without a listing block
\* whose service block raises
PhoneRaises == [FullTree EXCEPT !["phone"] = Raises]
IntakeTableRaises == [FullTree EXCEPT !["intake"] = B("table_raises", APPT_TEXT)]
ServiceRaises ==
    [EmptyTree EXCEPT !["beds"] = Present("beds"), !["service"] = Raises,
                      !["languages"] = Present("languages")]
AgencyNodes == {FullTree, EmptyTree, PhoneRaises, IntakeTableRaises, ServiceRaises}

IdleScrape ==
    /\ agencies_container = FALSE
    /\ agency_rows = <<>>
    /\ agencies = <<>>
    /\ sc_i = 0
    /\ sc_pc = "idle"

InitScrapeVars ==
    /\ agencies_container \in BOOLEAN
    /\ agency_rows \in SeqsUpTo(AgencyNodes, MaxAgencies)
    /\ agencies_container = FALSE => agency_rows = <<>>
    /\ agencies = <<>>
    /\ sc_i = 0
    /\ sc_pc = "start"

\* lines 382-385: no agencies container, the empty table is returned
ScrapeNoContainer ==
    /\ sc_pc = "start"
    /\ ~agencies_container
    /\ sc_pc' = "done"
    /\ UNCHANGED <<agencies_container, agency_rows, agencies, sc_i>>

\* lines 382-389: the container is found and find_all gives the nodes
ScrapeFindRows ==
    /\ sc_pc = "start"
    /\ agencies_container
    /\ sc_pc' = "loop"
    /\ UNCHANGED <<agencies_container, agency_rows, agencies, sc_i>>

\* lines 391-394: one iteration of the loop
ScrapeAgency ==
    /\ sc_pc = "loop"
    /\ sc_i < Len(agency_rows)
    /\ agencies' = AppendAgency(agencies, parse_agency_data(agency_rows[sc_i + 1]))
    /\ sc_i' = sc_i + 1
    /\ UNCHANGED <<agencies_container, agency_rows, sc_pc>>

\* line 396
ScrapeReturn ==
    /\ sc_pc = "loop"
    /\ sc_i = Len(agency_rows)
    /\ sc_pc' = "done"
    /\ UNCHANGED <<agencies_container, agency_rows, agencies, sc_i>>

(***************************************************************************)
(* run and main                                                            *)
(***************************************************************************)
MaxRows == 2

NoSoup == [filter |-> FALSE, services |-> 0, container |-> FALSE, agencies |-> 0]
\* The document, by what the two extractors make of it: whether the filter
\* containers exist, the services they yield, whether the agencies container
\* exists, and the agency rows in it.
Soups ==
    {[filter |-> f, services |-> IF f THEN s ELSE 0,
      container |-> c, agencies |-> IF c THEN a ELSE 0] :
        f \in BOOLEAN, s \in 0..MaxRows, c \in BOOLEAN, a \in 0..MaxRows}

IdleRun ==
    /\ soup = NoSoup
    /\ services_df = 0
    /\ agencies_df = 0
    /\ files = {}
    /\ steps = <<>>
    /\ exit_code = -1
    /\ run_pc = "idle"

InitRunVars ==
    /\ soup = NoSoup
    /\ services_df = 0
    /\ agencies_df = 0
    /\ files = {}
    /\ steps = <<>>
    /\ exit_code = -1
    /\ run_pc = "fetch"

\* MainExcept falling through to the return 0 of line 466
MainExceptMutFallThrough ==
    /\ exit_code' = 0
    /\ run_pc' = "exit"
\* lines 462-464: an exception out of run() makes main return 1
MainExcept ==
    /\ exit_code' = 1
    /\ run_pc' = "exit"

\* lines 422-423, fetch_page returning the parsed page
RunFetch ==
    /\ run_pc = "fetch"
    /\ soup' \in Soups
    /\ steps' = Append(steps, "fetch")
    /\ run_pc' = "services"
    /\ UNCHANGED <<services_df, agencies_df, files, exit_code>>

\* lines 422-423 with fetch_page raising (lines 35-37)
RunFetchFails ==
    /\ run_pc = "fetch"
    /\ steps' = Append(steps, "fetch")
    /\ MainExcept
    /\ UNCHANGED <<soup, services_df, agencies_df, files>>

\* lines 426-427
RunServices ==
    /\ run_pc = "services"
    /\ services_df' = soup.services
    /\ steps' = Append(steps, "services")
    /\ run_pc' = "agencies"
    /\ UNCHANGED <<soup, agencies_df, files, exit_code>>

\* lines 430-431
RunAgencies ==
    /\ run_pc = "agencies"
    /\ agencies_df' = soup.agencies
    /\ steps' = Append(steps, "agencies")
    /\ run_pc' = "save"
    /\ UNCHANGED <<soup, services_df, files, exit_code>>

\* lines 434-435 with 400-408: the agencies file is written
RunSaveAgencies ==
    /\ run_pc = "save"
    /\ steps' = Append(steps, "write")
    /\ files' = files \cup {[name |-> "agencies", rows |-> agencies_df]}
    /\ run_pc' = "save_services"
    /\ UNCHANGED <<soup, services_df, agencies_df, exit_code>>

\* lines 411-413: the services file is written
RunSaveServices ==
    /\ run_pc = "save_services"
    /\ files' = files \cup {[name |-> "services", rows |-> services_df]}
    /\ run_pc' = "saved"
    /\ UNCHANGED <<soup, services_df, agencies_df, steps, exit_code>>

\* an extraction step raising (neither has a handler of its own in run)
RunExtractRaises ==
    /\ run_pc \in {"services", "agencies"}
    /\ steps' = Append(steps, run_pc)
    /\ MainExcept
    /\ UNCHANGED <<soup, services_df, agencies_df, files>>

\* makedirs or to_csv raising (lines 403, 407, 412)
RunSaveRaises ==
    /\ run_pc \in {"save", "save_services"}
    /\ steps' = IF run_pc = "save" THEN Append(steps, "write") ELSE steps
    /\ MainExcept
    /\ UNCHANGED <<soup, services_df, agencies_df, files>>

\* lines 437-438, 459-461 and 466
MainReturn ==
    /\ run_pc = "saved"
    /\ exit_code' = 0
    /\ run_pc' = "exit"
    /\ UNCHANGED <<soup, services_df, agencies_df, files, steps>>

(***************************************************************************)
(* Specifications: one per function, the others' variables idle            *)
(***************************************************************************)
FrameTime == UNCHANGED <<varsHours, varsTable, varsSvc, varsAgency, varsScrape, varsRun>>
FrameHours == UNCHANGED <<varsTime, varsTable, varsSvc, varsAgency, varsScrape, varsRun>>
FrameTable == UNCHANGED <<varsTime, varsHours, varsSvc, varsAgency, varsScrape, varsRun>>
FrameSvc == UNCHANGED <<varsTime, varsHours, varsTable, varsAgency, varsScrape, varsRun>>
FrameAgency == UNCHANGED <<varsTime, varsHours, varsTable, varsSvc, varsScrape, varsRun>>
FrameScrape == UNCHANGED <<varsTime, varsHours, varsTable, varsSvc, varsAgency, varsRun>>
FrameRun == UNCHANGED <<varsTime, varsHours, varsTable, varsSvc, varsAgency, varsScrape>>

InitTime == InitTimeVars /\ IdleHours /\ IdleTable /\ IdleSvc /\ IdleAgency /\ IdleRun /\ IdleScrape
NextTime ==
    \/ TimeNormalize /\ FrameTime
    \/ TimeAM /\ FrameTime
    \/ TimePM /\ FrameTime
    \/ TimeElse /\ FrameTime
SpecTime == InitTime /\ [][NextTime]_vars

InitHours == IdleTime /\ InitHoursVars /\ IdleTable /\ IdleSvc /\ IdleAgency /\ IdleRun /\ IdleScrape
NextHours ==
    \/ HoursEmptyText /\ FrameHours
    \/ HoursAlwaysOpen /\ FrameHours
    \/ HoursFindAll /\ FrameHours
    \/ HoursMatch /\ FrameHours
    \/ HoursReturn /\ FrameHours
SpecHours == InitHours /\ [][NextHours]_vars

InitTable == IdleTime /\ IdleHours /\ InitTableVars /\ IdleSvc /\ IdleAgency /\ IdleRun /\ IdleScrape
NextTable ==
    \/ TableFindRowsRaises /\ FrameTable
    \/ TableTooFewRows /\ FrameTable
    \/ TableReadCells /\ FrameTable
    \/ TableReadCellsRaises /\ FrameTable
    \/ TablePairOk /\ FrameTable
    \/ TablePairRaises /\ FrameTable
    \/ TableReturn /\ FrameTable
SpecTable == InitTable /\ [][NextTable]_vars

InitSvc == IdleTime /\ IdleHours /\ IdleTable /\ InitSvcVars /\ IdleAgency /\ IdleRun /\ IdleScrape
NextSvc ==
    \/ SvcNoContainer /\ FrameSvc
    \/ SvcFindItems /\ FrameSvc
    \/ SvcItem /\ FrameSvc
    \/ SvcCheckbox /\ FrameSvc
    \/ SvcReturn /\ FrameSvc
SpecSvc == InitSvc /\ [][NextSvc]_vars

InitAgency == IdleTime /\ IdleHours /\ IdleTable /\ IdleSvc /\ InitAgencyVars /\ IdleRun /\ IdleScrape
NextAgency ==
    \/ AgListing /\ FrameAgency
    \/ AgName /\ FrameAgency
    \/ AgSecondary /\ FrameAgency
    \/ AgAddress /\ FrameAgency
    \/ AgPhone /\ FrameAgency
    \/ AgWeb /\ FrameAgency
    \/ AgWheel /\ FrameAgency
    \/ AgHours /\ FrameAgency
    \/ AgBeds /\ FrameAgency
    \/ AgIntake /\ FrameAgency
    \/ AgService /\ FrameAgency
    \/ AgLanguages /\ FrameAgency
    \/ AgLastUpdate /\ FrameAgency
    \/ AgReturn /\ FrameAgency
SpecAgency == InitAgency /\ [][NextAgency]_vars

InitScrape ==
    IdleTime /\ IdleHours /\ IdleTable /\ IdleSvc /\ IdleAgency /\ IdleRun /\ InitScrapeVars
NextScrape ==
    \/ ScrapeNoContainer /\ FrameScrape
    \/ ScrapeFindRows /\ FrameScrape
    \/ ScrapeAgency /\ FrameScrape
    \/ ScrapeReturn /\ FrameScrape
SpecScrape == InitScrape /\ [][NextScrape]_vars

InitRun == IdleTime /\ IdleHours /\ IdleTable /\ IdleSvc /\ IdleAgency /\ InitRunVars /\ IdleScrape
NextRun ==
    \/ RunFetch /\ FrameRun
    \/ RunFetchFails /\ FrameRun
    \/ RunServices /\ FrameRun
    \/ RunAgencies /\ FrameRun
    \/ RunSaveAgencies /\ FrameRun
    \/ RunSaveServices /\ FrameRun
    \/ RunExtractRaises /\ FrameRun
    \/ RunSaveRaises /\ FrameRun
    \/ MainReturn /\ FrameRun
SpecRun == InitRun /\ [][NextRun]_vars

Init == InitTime \/ InitHours \/ InitTable \/ InitSvc \/ InitAgency \/ InitScrape \/ InitRun
Next == NextTime \/ NextHours \/ NextTable \/ NextSvc \/ NextAgency \/ NextScrape \/ NextRun
Spec == Init /\ [][Next]_vars

(***************************************************************************)
(* Properties of parse_agency_data (SpecAgency)                            *)
(***************************************************************************)
\* Whether the sub-tree holds block g where the code looks for it: a block of
\* the listing exists only inside a listing block.
Found(g) ==
    /\ agency_div[g].st # "absent"
    /\ g \in InListing => agency_div["listing"].st # "absent"

\* The fields each field group assigns.
FieldsOf(g) ==
    CASE g = "name" -> {<<"agency_name">>}
      [] g = "secondary" -> {<<"agency_name_secondary">>}
      [] g = "address" -> {<<"agency_address">>}
      [] g = "phone" -> {<<"agency_phone">>}
      [] g = "web" -> {<<"agency_website">>}
      [] g = "wheel" -> {<<"agency_wheelchair_access">>}
      [] g = "hours" ->
           {<<"agency_hours", d, x>> : d \in DaySet, x \in {"open", "close"}}
      [] g = "beds" -> {<<"available_beds">>}
      [] g = "intake" ->
           {<<"intake_open_appointments">>}
           \cup {<<"intake_hours", d, x>> : d \in DaySet, x \in {"open", "close"}}
      [] g = "service" -> {<<"populations_served">>}
      [] g = "languages" -> {<<"languages_spoken">>}
      [] g = "last_update" -> {<<"last_updated">>}
      [] OTHER -> {}

\* The groups in the order the code evaluates them for this sub-tree, and the
\* position of the first one that raises (one past the end when none does).
EvalOrder ==
    IF agency_div["listing"].st = "absent"
    THEN <<"listing", "beds", "intake", "service", "languages", "last_update">>
    ELSE Blocks
FailPos ==
    LET bad == {i \in 1..Len(EvalOrder) : ~Group(EvalOrder[i], agency_div[EvalOrder[i]]).ok}
    IN  IF bad = {} THEN Len(EvalOrder) + 1
        ELSE CHOOSE i \in bad : \A j \in bad : i <= j
PosOf(g) ==
    IF \E i \in 1..Len(EvalOrder) : EvalOrder[i] = g
    THEN CHOOSE i \in 1..Len(EvalOrder) : EvalOrder[i] = g
    ELSE Len(EvalOrder) + 2

\* group g left the record as its rule says: the fields its rule assigns hold
\* the assigned values, its other fields the default ''
Extracted(g) ==
    LET sets == Group(g, agency_div[g]).sets
    IN  \A k \in FieldsOf(g) :
            /\ k \in DOMAIN data
            /\ data[k] = IF \E kv \in sets : kv[1] = k
                         THEN (CHOOSE kv \in sets : kv[1] = k)[2]
                         ELSE <<>>
AtDefault(g) == \A k \in FieldsOf(g) : k \in DOMAIN data /\ data[k] = <<>>

\* the keys lines 247-269 declare
C1_Keys ==
    {<<"agency_name">>, <<"agency_name_secondary">>, <<"agency_address">>,
     <<"agency_phone">>, <<"agency_website">>, <<"agency_wheelchair_access">>,
     <<"available_beds">>, <<"intake_open_appointments">>,
     <<"populations_served">>, <<"languages_spoken">>, <<"last_updated">>}
    \cup {<<p, d, x>> :
            p \in {"agency_hours", "intake_hours"},
            d \in {"sunday", "monday", "tuesday", "wednesday", "thursday",
                   "friday", "saturday"},
            x \in {"open", "close"}}
\* C1: every record parse_agency_data returns has the same 39 keys (11 plain
\* keys and {agency_hours, intake_hours} x 7 weekdays x {open, close}),
\* whichever blocks exist and wherever extraction raises; with every block
\* absent every key holds ''.
C1_FixedKeySet ==
    ag_pc = "done" =>
        /\ DOMAIN data = C1_Keys
        /\ Cardinality(DOMAIN data) = 11 + 28
        /\ (\A g \in BlockSet : ~Found(g)) => \A k \in C1_Keys : data[k] = <<>>
\* a record returned after an exception, with the agency hours table extracted
C1_Witness ==
    /\ ag_pc = "done"
    /\ ag_logged
    /\ data[<<"agency_hours", "sunday", "open">>] = <<"C","l","o","s","e","d">>
    /\ data[<<"last_updated">>] = <<>>

\* C2 as stated: the field groups are isolated from one another, so every
\* group whose block is present and which does not itself raise is extracted,
\* whatever another group does.
C2_Isolated ==
    (ag_pc = "done" /\ agency_div["listing"].st # "raises") =>
        \A g \in BlockSet \ {"listing"} :
            (Found(g) /\ Group(g, agency_div[g]).ok) => Extracted(g)
\* C2 amended: the groups are evaluated in one try block in a fixed order; the
\* groups before the first one that raises are extracted, the raising group
\* keeps the fields it assigned before it raised, every later group stays at
\* its defaults, present or not, and the error is logged.
C2_UpToFailure ==
    ag_pc = "done" =>
        LET failed_at == FailPos
        IN  /\ ag_logged = (failed_at <= Len(EvalOrder))
            /\ \A g \in BlockSet \ {"listing"} :
                  IF PosOf(g) <= failed_at THEN Extracted(g) ELSE AtDefault(g)
\* a group raised after the name was extracted, and the beds block, which is
\* present, was never read
C2_Witness ==
    /\ ag_pc = "done"
    /\ ag_logged
    /\ data[<<"agency_name">>] = <<"A","c","m","e">>
    /\ agency_div["beds"].st = "present"
    /\ data[<<"available_beds">>] = <<>>

\* the value the wheelchair block alone stands for
C8_Value ==
    IF ~Found("wheel") THEN <<>>
    ELSE IF \E i \in 1..Len(agency_div["wheel"].text) :
               /\ LowerChar(At(agency_div["wheel"].text, i)) = "y"
               /\ LowerChar(At(agency_div["wheel"].text, i + 1)) = "e"
               /\ LowerChar(At(agency_div["wheel"].text, i + 2)) = "s"
         THEN <<"Y","e","s">>
         ELSE <<"N","o">>
\* C8 as stated: agency_wheelchair_access is decided by the wheelchair block
\* alone: 'Yes' when it exists and its text holds 'yes' in any case, 'No' when
\* it exists and does not, '' when it is absent.
C8_ByBlockAlone ==
    (ag_pc = "done" /\ agency_div["listing"].st # "raises"
                   /\ agency_div["wheel"].st # "raises") =>
        data[<<"agency_wheelchair_access">>] = C8_Value
\* C8 amended: that value is taken when the wheelchair group is reached, that
\* is when no earlier lookup raised; otherwise, and when reading the block
\* itself raises, the field keeps ''.  It is never 'No' for an absent block.
C8_WhenReached ==
    ag_pc = "done" =>
        /\ data[<<"agency_wheelchair_access">>] =
              IF PosOf("wheel") < FailPos THEN C8_Value ELSE <<>>
        /\ ~Found("wheel") => data[<<"agency_wheelchair_access">>] = <<>>
\* a record returned without an exception, its block holding 'yes'
C8_Witness ==
    /\ ag_pc = "done"
    /\ ~ag_logged
    /\ Found("wheel")
    /\ data[<<"agency_wheelchair_access">>] = <<"Y","e","s">>

(***************************************************************************)
(* Properties of convert_to_24h (SpecTime)                                 *)
(***************************************************************************)
\* A token the function recognises: after upper-casing and removing
\* whitespace it holds AM or PM, and what is left without the marker is
\* <integer> or <integer>:<anything without a colon>.
C4_Recognized ==
    LET t == RemoveWS(Upper(time_str))
        marker == IF Contains(t, AM) THEN AM ELSE PM
        rest == Remove(t, marker)
        colons == {i \in 1..Len(rest) : rest[i] = ":"}
        hour == IF colons = {} THEN rest
                ELSE SubSeq(rest, 1, (CHOOSE i \in colons : TRUE) - 1)
    IN  /\ Contains(t, AM) \/ Contains(t, PM)
        /\ Cardinality(colons) <= 1
        /\ IsInt(hour)

\* C4 as stated: a token of no recognised shape is returned character for
\* character as it was given, and nothing is raised.
C4_Unmodified ==
    time_pc = "done" =>
        /\ ~time_raised
        /\ ~C4_Recognized => time_out = time_str
\* C4 amended: a token of no recognised shape is returned upper-cased and
\* without its whitespace (the text line 219 rebinds time_str to), and
\* nothing is raised; 'noon' gives 'NOON'.
C4_Normalized ==
    time_pc = "done" =>
        /\ ~time_raised
        /\ ~C4_Recognized =>
              time_out = SelectSeq([i \in 1..Len(time_str) |-> UpperChar(time_str[i])],
                                   NotSpace)
        /\ time_str = <<"n","o","o","n">> => time_out = <<"N","O","O","N">>
\* a token with AM in it that does not parse, returned changed
C4_Witness ==
    /\ time_pc = "done"
    /\ ~C4_Recognized
    /\ Contains(time_norm, AM)
    /\ time_out # time_str

\* the 24-hour value of hour h of the 12-hour clock, and the text expected
C5_Hour24(h, pm) ==
    IF pm THEN (IF h = 12 THEN 12 ELSE h + 12) ELSE (IF h = 12 THEN 0 ELSE h)
C5_Expected(h, m, pm) ==
    <<Digits[(C5_Hour24(h, pm) \div 10) + 1], Digits[(C5_Hour24(h, pm) % 10) + 1]>>
    \o (IF m = <<>> THEN <<":","0","0">> ELSE m)
\* C5: a token <hour 1..12>[:<minutes>][ ]<AM|PM in any case> gives HH:MM,
\* zero-padded, with hour 12 AM -> 00, other AM hours unchanged, 12 PM -> 12,
\* other PM hours + 12, the minutes carried over and 00 when absent.
C5_TwelveHour ==
    time_pc = "done" =>
        /\ \A h \in 1..12, m \in ShapeMinutes, g \in ShapeGaps,
              x \in AMSuffixes \cup PMSuffixes :
              time_str \in {DecStr(h) \o m \o g \o x, Fmt02d(h) \o m \o g \o x}
                  => time_out = C5_Expected(h, m, x \in PMSuffixes)
        /\ time_str = <<"9",":","0","0"," ","A","M">> => time_out = <<"0","9",":","0","0">>
        /\ time_str = <<"1","2",":","0","0"," ","A","M">> => time_out = <<"0","0",":","0","0">>
        /\ time_str = <<"1","2",":","0","0"," ","P","M">> => time_out = <<"1","2",":","0","0">>
        /\ time_str = <<"9","P","M">> => time_out = <<"2","1",":","0","0">>
\* midnight converted
C5_Witness ==
    /\ time_pc = "done"
    /\ time_str = <<"1","2",":","3","0"," ","a","m">>
    /\ time_out = <<"0","0",":","3","0">>

(***************************************************************************)
(* Properties of parse_hours (SpecHours)                                   *)
(***************************************************************************)
\* the weekday a day token names, by its first three letters
C3_Day(token) ==
    LET p == SubSeq(Lower(token), 1, 3)
    IN  CASE p = <<"s","u","n">> -> "sunday"
          [] p = <<"m","o","n">> -> "monday"
          [] p = <<"t","u","e">> -> "tuesday"
          [] p = <<"w","e","d">> -> "wednesday"
          [] p = <<"t","h","u">> -> "thursday"
          [] p = <<"f","r","i">> -> "friday"
          [] p = <<"s","a","t">> -> "saturday"
C3_SundayFirst == <<"sunday", "monday", "tuesday", "wednesday", "thursday",
                    "friday", "saturday">>
C3_MondayFirst == <<"monday", "tuesday", "wednesday", "thursday", "friday",
                    "saturday", "sunday">>
C3_Index(order, day) == CHOOSE i \in 1..7 : order[i] = day
\* match m covers the day, in the given ordering of the week
C3_Covers(order, m, day) ==
    LET first == C3_Index(order, C3_Day(m.start_day))
        last == IF m.end_day = <<>> THEN first ELSE C3_Index(order, C3_Day(m.end_day))
    IN  first <= C3_Index(order, day) /\ C3_Index(order, day) <= last
\* the schedule of a day: that of the last match covering it, else empty
C3_Schedule(order, day) ==
    LET ms == hours_text.day_ranges
        hits == {k \in 1..Len(ms) : C3_Covers(order, ms[k], day)}
    IN  IF hits = {} THEN [open |-> <<>>, close |-> <<>>]
        ELSE LET k == CHOOSE i \in hits : \A j \in hits : j <= i
             IN  [open |-> convert_to_24h(ms[k].open_time),
                  close |-> convert_to_24h(ms[k].close_time)]
C3_MonFri ==
    <<[start_day |-> <<"M","o","n">>, end_day |-> <<"F","r","i">>,
       open_time |-> <<"9",":","0","0"," ","A","M">>,
       close_time |-> <<"5",":","0","0"," ","P","M">>]>>
C3_NineToFive == [open |-> <<"0","9",":","0","0">>, close |-> <<"1","7",":","0","0">>]
C3_Example ==
    hours_text.day_ranges = C3_MonFri =>
        /\ \A d \in {"monday", "tuesday", "wednesday", "thursday", "friday"} :
              hours[d] = C3_NineToFive
        /\ \A d \in {"saturday", "sunday"} : hours[d] = [open |-> <<>>, close |-> <<>>]

\* C3 as stated: each match sets the days between its start and end day in
\* the ordering Sunday=0 .. Saturday=6, without wrapping; other days stay empty.
C3_SundayOrdering ==
    (hours_pc = "done" /\ hours_text.kind = "plain") =>
        /\ \A d \in DaySet : hours[d] = C3_Schedule(C3_SundayFirst, d)
        /\ C3_Example
\* C3 amended: the ordering is Monday=0 .. Sunday=6 (the first positions in
\* list(day_mapping.values())), without wrapping: 'Sat-Sun' sets both days,
\* 'Sun-Mon' and 'Sun-Sat' set none; other days stay empty.
C3_MondayOrdering ==
    (hours_pc = "done" /\ hours_text.kind = "plain") =>
        /\ DOMAIN hours = DaySet
        /\ \A d \in DaySet : hours[d] = C3_Schedule(C3_MondayFirst, d)
        /\ C3_Example
\* 'Sat-Sun' applied to both days, and a range from Sunday on applied to none
C3_Witness ==
    /\ hours_pc = "done"
    /\ hours_text.kind = "plain"
    /\ Len(hours_text.day_ranges) = 2
    /\ hours_text.day_ranges[1].start_day = <<"S","a","t">>
    /\ hours_text.day_ranges[1].end_day = <<"S","u","n">>
    /\ hours_text.day_ranges[2].start_day = <<"S","u","n","d","a","y">>
    /\ hours_text.day_ranges[2].end_day = <<"M","O","N">>
    /\ hours["saturday"] = hours["sunday"]
    /\ hours["sunday"].open # <<>>
    /\ hours["monday"].open = <<>>

(***************************************************************************)
(* Properties of parse_hours_table (SpecTable)                             *)
(***************************************************************************)
\* the weekday a header cell names: a weekday abbreviation in any case
C6_Day(header) ==
    LET t == Lower(header.text)
    IN  CASE t = <<"s","u","n">> -> "sunday"
          [] t = <<"m","o","n">> -> "monday"
          [] t = <<"t","u","e">> -> "tuesday"
          [] t = <<"w","e","d">> -> "wednesday"
          [] t = <<"t","h","u">> -> "thursday"
          [] t = <<"f","r","i">> -> "friday"
          [] t = <<"s","a","t">> -> "saturday"
          [] OTHER -> "none"
C6_Closed(cell) == Contains(Lower(cell.text), <<"c","l","o","s","e","d">>)
\* pair i sets the day: its header names it and its value holds 'closed' or a
\* time range
C6_Sets(i, day) ==
    /\ table.headers[i].is_str
    /\ C6_Day(table.headers[i]) = day
    /\ table.times[i].is_str
    /\ C6_Closed(table.times[i]) \/ TimeRangeSearch(table.times[i].text).found
\* the schedule of a day after the first n pairs: what the last pair that sets
\* it gives, empty when no pair does
C6_Schedule(n, day) ==
    LET hits == {i \in 1..n : C6_Sets(i, day)}
    IN  IF hits = {} THEN [open |-> <<>>, close |-> <<>>]
        ELSE LET i == CHOOSE k \in hits : \A j \in hits : j <= k
                 range == TimeRangeSearch(table.times[i].text)
             IN  IF C6_Closed(table.times[i])
                 THEN [open |-> <<"C","l","o","s","e","d">>,
                       close |-> <<"C","l","o","s","e","d">>]
                 ELSE [open |-> convert_to_24h(range.open),
                       close |-> convert_to_24h(range.close)]
C6_Pairs ==
    IF Len(table.headers) < Len(table.times)
    THEN Len(table.headers) ELSE Len(table.times)
C6_Example ==
    (/\ table.headers = <<Str(<<"S","u","n">>), Str(<<"M","o","n">>)>>
     /\ table.times = <<Str(<<"C","l","o","s","e","d">>),
                        Str(<<"8",":","0","0","A","M"," ","-"," ","5",":","0","0","P","M">>)>>)
    => /\ tbl_hours["sunday"] = [open |-> <<"C","l","o","s","e","d">>,
                                 close |-> <<"C","l","o","s","e","d">>]
       /\ tbl_hours["monday"] = [open |-> <<"0","8",":","0","0">>,
                                 close |-> <<"1","7",":","0","0">>]
       /\ \A d \in DaySet \ {"sunday", "monday"} :
             tbl_hours[d] = [open |-> <<>>, close |-> <<>>]

\* C6: header i is paired with value i, surplus cells ignored; a header that
\* is no weekday abbreviation changes nothing; a value holding 'closed' in any
\* case sets the day to Closed/Closed; else a <time> - <time> pattern sets
\* open and close to the two times through convert_to_24h; a value without a
\* pattern sets nothing, and a day that no pair sets stays at ''/'' (of two
\* pairs naming the same day, the later one that sets it decides).
C6_PairedCells ==
    (tbl_pc = "done" /\ ~tbl_logged /\ table.rows >= 2) =>
        /\ DOMAIN tbl_hours = DaySet
        /\ \A d \in DaySet : tbl_hours[d] = C6_Schedule(C6_Pairs, d)
        /\ C6_Example
\* a table with a Closed day, a day with times and a surplus header
C6_Witness ==
    /\ tbl_pc = "done"
    /\ ~tbl_logged
    /\ Len(table.headers) = 2
    /\ Len(table.times) = 2
    /\ tbl_hours["sunday"].open = <<"C","l","o","s","e","d">>
    /\ tbl_hours["monday"].open = <<"0","8",":","0","0">>
    /\ tbl_hours["monday"].close = <<"1","7",":","0","0">>

\* the pair at which the loop raises, 0 when none does: a header that is no
\* string, or a value that is no string under a header naming a weekday
C10_Raises(i) ==
    \/ ~table.headers[i].is_str
    \/ C6_Day(table.headers[i]) # "none" /\ ~table.times[i].is_str
C10_FailedPair ==
    LET bad == {i \in 1..C6_Pairs : C10_Raises(i)}
    IN  IF bad = {} THEN 0 ELSE CHOOSE i \in bad : \A j \in bad : i <= j

\* C10 as stated: nothing is propagated, and after any failure the schedule
\* returned is the all-default one, however many pairs were processed.
C10_AllDefault ==
    tbl_pc = "done" =>
        /\ ~tbl_raised
        /\ tbl_logged =>
              \A d \in DaySet : tbl_hours[d] = [open |-> <<>>, close |-> <<>>]
\* C10 amended: nothing is propagated; a failure before the loop (finding the
\* rows, reading the cells) returns the all-default schedule, and a failure at
\* a header/value pair returns the schedule as the pairs processed before it
\* made it.
C10_KeepsProcessed ==
    tbl_pc = "done" =>
        /\ ~tbl_raised
        /\ DOMAIN tbl_hours = DaySet
        /\ tbl_logged =>
              IF table.find_all = "raises" \/ table.cells = "raises"
              THEN \A d \in DaySet : tbl_hours[d] = [open |-> <<>>, close |-> <<>>]
              ELSE /\ C10_FailedPair > 0
                   /\ \A d \in DaySet :
                         tbl_hours[d] = C6_Schedule(C10_FailedPair - 1, d)
\* the second pair raised after the first one set its day
C10_Witness ==
    /\ tbl_pc = "done"
    /\ tbl_logged
    /\ C10_FailedPair = 2
    /\ tbl_hours["sunday"].open = <<"C","l","o","s","e","d">>

(***************************************************************************)
(* Properties of extract_service_types (SpecSvc)                           *)
(***************************************************************************)
C7_SameKey(a, b) ==
    a.category = b.category /\ a.service_name = b.service_name
\* the first collected entry with the category and name of entry e
C7_First(e) ==
    CHOOSE i \in 1..Len(service_types) :
        /\ C7_SameKey(service_types[i], e)
        /\ \A j \in 1..(i - 1) : ~C7_SameKey(service_types[j], e)

\* C7: the returned table has no two rows with the same (category,
\* service_name); every pair collected has exactly one row, which carries
\* the code and description of the first entry collected with that pair, and
\* the rows are in the order of these first entries.
C7_FirstWins ==
    svc_pc = "done" =>
        /\ \A i, j \in 1..Len(unique_services) :
              C7_SameKey(unique_services[i], unique_services[j]) => i = j
        /\ \A k \in 1..Len(service_types) :
              \E i \in 1..Len(unique_services) :
                  C7_SameKey(unique_services[i], service_types[k])
        /\ \A i \in 1..Len(unique_services) :
              /\ \E k \in 1..Len(service_types) :
                    C7_SameKey(service_types[k], unique_services[i])
              /\ unique_services[i] = service_types[C7_First(unique_services[i])]
        /\ \A i, j \in 1..Len(unique_services) :
              i < j => C7_First(unique_services[i]) < C7_First(unique_services[j])
\* two entries with the same pair and different code or description were
\* collected, with another pair between them
C7_Witness ==
    /\ svc_pc = "done"
    /\ Len(service_types) = 3
    /\ Len(unique_services) = 2
    /\ C7_SameKey(service_types[1], service_types[3])
    /\ service_types[1] # service_types[3]

(***************************************************************************)
(* Properties of run and main (SpecRun)                                    *)
(***************************************************************************)
C9_Order == <<"fetch", "services", "agencies", "write">>
C9_Written(name) == \E f \in files : f.name = name

\* C9: the steps run in the order fetch, service extraction, agency
\* extraction, write; a run that ends at a failed fetch has a non-zero exit
\* code, has run no extraction and has written no file; exit code 0 is
\* returned only after both tables were written.
C9_StepOrder ==
    /\ Len(steps) <= 4
    /\ steps = SubSeq(C9_Order, 1, Len(steps))
    /\ (services_df # 0 \/ agencies_df # 0) => Len(steps) >= 2
    /\ files # {} => steps = C9_Order
    /\ (run_pc = "exit" /\ steps = <<"fetch">>) =>
          /\ exit_code # 0
          /\ exit_code # -1
          /\ files = {}
    /\ run_pc = "exit" => exit_code \in {0, 1}
    /\ exit_code = 0 =>
          /\ steps = C9_Order
          /\ C9_Written("agencies")
          /\ C9_Written("services")
\* a run that went through all four steps and returned 0
C9_Witness ==
    /\ run_pc = "exit"
    /\ exit_code = 0
    /\ steps = C9_Order
    /\ C9_Written("agencies")
    /\ C9_Written("services")
    /\ services_df = 2

(***************************************************************************)
(* Properties of scrape_agencies (SpecScrape)                              *)
(***************************************************************************)
\* the groups in the order the code evaluates them for a node, and the
\* position of the first one that raises (one past the end when none does)
C11_Order(tree) ==
    IF tree["listing"].st = "absent"
    THEN <<"listing", "beds", "intake", "service", "languages", "last_update">>
    ELSE Blocks
C11_FailPos(tree) ==
    LET First(order) ==
            LET bad == {i \in 1..Len(order) : ~Group(order[i], tree[order[i]]).ok}
            IN  IF bad = {} THEN Len(order) + 1
                ELSE CHOOSE i \in bad : \A j \in bad : i <= j
    IN  First(C11_Order(tree))
\* the value of key k in the record of a node: what the group that assigns k
\* gave it, when that group was evaluated no later than the failure, else ''
C11_Value(tree, failed_at, k) ==
    LET order == C11_Order(tree)
        reached == {order[i] : i \in 1..(IF failed_at < Len(order)
                                         THEN failed_at ELSE Len(order))}
        given == UNION {Group(g, tree[g]).sets : g \in {h \in reached : k \in FieldsOf(h)}}
    IN  IF \E kv \in given : kv[1] = k
        THEN (CHOOSE kv \in given : kv[1] = k)[2]
        ELSE <<>>
C11_Record(tree, failed_at) == [k \in C1_Keys |-> C11_Value(tree, failed_at, k)]

\* C11: scrape_agencies emits one record per agency node, in document order,
\* whatever happens during extraction: the record of a node whose extraction
\* raises is emitted with the fields extracted before the failure and ''
\* in the fields not reached, and the nodes after it are extracted and emitted.
C11_OnePerNode ==
    sc_pc = "done" =>
        /\ Len(agencies) = Len(agency_rows)
        /\ \A k \in 1..Len(agency_rows) :
              agencies[k] = C11_Record(agency_rows[k], C11_FailPos(agency_rows[k]))
\* the first node raised at its phone block, and the node after it was
\* extracted in full
C11_Witness ==
    /\ sc_pc = "done"
    /\ Len(agencies) = 2
    /\ agency_rows[1]["phone"].st = "raises"
    /\ agencies[1][<<"agency_name">>] = <<"A","c","m","e">>
    /\ agencies[1][<<"agency_phone">>] = <<>>
    /\ agencies[1][<<"available_beds">>] = <<>>
    /\ agency_rows[2] = FullTree
    /\ agencies[2][<<"last_updated">>] = <<"1","/","2","/","2","5">>
    /\ agencies[2][<<"agency_name">>] = <<"A","c","m","e">>

====
